---- MODULE Spec2Model ----
(***************************************************************************)
(* Rep classifier of the HIIT E-Judge prototype (src/src/repLogic.ts).     *)
(*                                                                         *)
(* A session holds a movement kind and a RepState.  A sample is fed        *)
(* through processPoseSample; while the result is in hand the held state   *)
(* is still the input state, and returning the result's state replaces it  *)
(* (the state updater of handlePoseSample in src/src/App.tsx).             *)
(*                                                                         *)
(* Spec is that session under arbitrary samples; SpecSession adds the      *)
(* Consumer's reset and movement switch; SpecApp is the App itself: the    *)
(* camera start-up of startCamera and the placeholder loop of              *)
(* src/src/posePipeline.ts, which only delivers the neutral sample.        *)
(*                                                                         *)
(* Numbers.  The coordinates are JavaScript numbers.  A finite coordinate  *)
(* is modelled as an integer count of grid units of 0.01, so the two       *)
(* thresholds 0.04 and 0.03 are the integers 4 and 3.  NaN and the two     *)
(* infinities are numbers too and are modelled with IEEE-754 semantics:    *)
(* every comparison with NaN is false, Infinity - Infinity is NaN, and an  *)
(* infinity absorbs a finite subtrahend.  Subtraction of finite            *)
(* coordinates is exact on the grid; the rounding of a double subtraction  *)
(* is not modelled, so "equal to hipY - 0.03" means equal to the value     *)
(* the program computes for hipY - 0.03.                                   *)
(***************************************************************************)
EXTENDS Integers, Sequences, FiniteSets, TLC

VARIABLES movement, repState, call, metrics, errorMsg,
          cameraStatus, streamRef, videoSrc, poseHandleRef, pipes, starts

\* The camera side of the App: status, the refs, the pipelines started so
\* far and the startCamera calls made so far.
camVars == <<cameraStatus, streamRef, videoSrc, poseHandleRef, pipes, starts>>

vars == <<movement, repState, call, metrics, errorMsg, camVars>>

(* ---------------------------------------------------------------------- *)
(* Bounds of the model                                                     *)
(* ---------------------------------------------------------------------- *)
MaxCoord == 5
MaxReps == 2
MaxStarts == 2

(* ---------------------------------------------------------------------- *)
(* JavaScript numbers                                                      *)
(* ---------------------------------------------------------------------- *)
Fin(n) == [k |-> "fin", v |-> n]
NaN == [k |-> "nan", v |-> 0]
PosInf == [k |-> "pinf", v |-> 0]
NegInf == [k |-> "ninf", v |-> 0]
Undefined == [k |-> "undefined", v |-> 0]

Num == {Fin(n) : n \in 0..MaxCoord} \cup {NaN, PosInf, NegInf}

\* a - b
Sub(a, b) ==
  IF a.k = "nan" \/ b.k = "nan" THEN NaN
  ELSE IF a.k = "fin" /\ b.k = "fin" THEN Fin(a.v - b.v)
  ELSE IF a.k = b.k THEN NaN
  ELSE IF a.k = "fin" THEN (IF b.k = "pinf" THEN NegInf ELSE PosInf)
  ELSE a

\* a > b
Gt(a, b) ==
  /\ a.k # "nan"
  /\ b.k # "nan"
  /\ \/ a.k = "fin" /\ b.k = "fin" /\ a.v > b.v
     \/ a.k = "pinf" /\ b.k # "pinf"
     \/ b.k = "ninf" /\ a.k # "ninf"

\* a <= b
Le(a, b) ==
  /\ a.k # "nan"
  /\ b.k # "nan"
  /\ ~Gt(a, b)

\* a === b on numbers
NumEq(a, b) ==
  /\ a.k # "nan"
  /\ b.k # "nan"
  /\ a = b

(* ---------------------------------------------------------------------- *)
(* Types                                                                   *)
(* ---------------------------------------------------------------------- *)
Movement == {"air_squat", "wall_ball", "deadlift"}

Null == "null"
SquatMsg == "Squat depth likely too shallow"
DepthMsg == "Depth issue"
DeadliftMsg == "Deadlift lockout: stand taller and open hips fully"

PoseSample ==
  [hipY : Num, kneeY : Num, shoulderY : Num, barY : Num \cup {Undefined}]

createInitialRepState ==
  [repCount |-> 0, lastPhase |-> "unknown", invalidCount |-> 0,
   lastInvalidReason |-> Null]

squatDepthRatio == 4
deadliftLockoutDelta == 3

(* ---------------------------------------------------------------------- *)
(* Steps shared by processSquatLike and processDeadlift                    *)
(* ---------------------------------------------------------------------- *)
\* Variant: the reason of an earlier call is carried over ({ ...state }).
clearReason_keep(state) == state

\* let newState = { ...state, lastInvalidReason: null }
clearReason(state) == [state EXCEPT !.lastInvalidReason = Null]

\* Variant: the descent is counted as a rep as well.
enterBottom_counting(newState) ==
  [newState EXCEPT !.lastPhase = "bottom", !.repCount = @ + 1]

\* newState.lastPhase = "bottom"
enterBottom(newState) == [newState EXCEPT !.lastPhase = "bottom"]

\* Variant: the rep is added but lastPhase is not set back to "top".
countRep_staysBottom(newState) == [newState EXCEPT !.repCount = @ + 1]

\* Variant: the phase flips to top but the rep is not added.
countRep_noIncrement(newState) == [newState EXCEPT !.lastPhase = "top"]

\* newState.repCount += 1; newState.lastPhase = "top"
countRep(newState) ==
  [newState EXCEPT !.repCount = @ + 1, !.lastPhase = "top"]

\* Variant: the reason is recorded but the invalid rep is not added.
markInvalid_noCount(newState, reason) ==
  [newState EXCEPT !.lastInvalidReason = reason]

\* newState.invalidCount += 1; newState.lastInvalidReason = reason
markInvalid(newState, reason) ==
  [newState EXCEPT !.invalidCount = @ + 1, !.lastInvalidReason = reason]

\* atTop ? "top" : atBottom ? "bottom" : "unknown"
resolvePhase(atTop, atBottom) ==
  IF atTop THEN "top" ELSE IF atBottom THEN "bottom" ELSE "unknown"

(* ---------------------------------------------------------------------- *)
(* processSquatLike                                                        *)
(* ---------------------------------------------------------------------- *)
\* Variant: the sign of the depth is turned around (kneeY - hipY).
squatAtBottom_flippedSign(sample) ==
  Gt(Sub(sample.kneeY, sample.hipY), Fin(squatDepthRatio))

\* Variant: hipY > kneeY, the depth threshold forgotten.
squatAtBottom_noThreshold(sample) == Gt(sample.hipY, sample.kneeY)

squatAtBottom(sample) ==
  Gt(Sub(sample.hipY, sample.kneeY), Fin(squatDepthRatio))

\* Variant: hipY < kneeY.
squatAtTop_strict(sample) == Gt(sample.kneeY, sample.hipY)

squatAtTop(sample) == Le(sample.hipY, sample.kneeY)

\* Variant: the depth test with the comparison turned around.
depthOk_flipped(sample) ==
  Le(Sub(sample.hipY, sample.kneeY), Fin(squatDepthRatio))

depthOk(sample) ==
  Gt(Sub(sample.hipY, sample.kneeY), Fin(squatDepthRatio))

\* Variant: the fallback message is used for every movement.
squatReason_generic(mv) == DepthMsg

squatReason(mv) ==
  IF mv = "air_squat" \/ mv = "wall_ball" THEN SquatMsg ELSE DepthMsg

\* Variant: the last branch lacks the test lastPhase === "unknown", so a
\* sample that moves neither way re-resolves the phase.
processSquatLike_resolveAlways(mv, state, sample) ==
  LET atBottom == squatAtBottom(sample)
      atTop == squatAtTop(sample)
      newState == clearReason(state)
  IN
  IF state.lastPhase = "top" /\ atBottom THEN
    [state |-> enterBottom(newState),
     repCompleted |-> FALSE, invalidRep |-> FALSE]
  ELSE IF state.lastPhase = "bottom" /\ atTop THEN
    IF ~depthOk(sample) THEN
      [state |-> markInvalid(countRep(newState), squatReason(mv)),
       repCompleted |-> TRUE, invalidRep |-> TRUE]
    ELSE
      [state |-> countRep(newState),
       repCompleted |-> TRUE, invalidRep |-> FALSE]
  ELSE
    [state |-> [newState EXCEPT !.lastPhase = resolvePhase(atTop, atBottom)],
     repCompleted |-> FALSE, invalidRep |-> FALSE]

processSquatLike(mv, state, sample) ==
  LET atBottom == squatAtBottom(sample)
      atTop == squatAtTop(sample)
      newState == clearReason(state)
  IN
  IF state.lastPhase = "top" /\ atBottom THEN
    [state |-> enterBottom(newState),
     repCompleted |-> FALSE, invalidRep |-> FALSE]
  ELSE IF state.lastPhase = "bottom" /\ atTop THEN
    IF ~depthOk(sample) THEN
      [state |-> markInvalid(countRep(newState), squatReason(mv)),
       repCompleted |-> TRUE, invalidRep |-> TRUE]
    ELSE
      [state |-> countRep(newState),
       repCompleted |-> TRUE, invalidRep |-> FALSE]
  ELSE IF state.lastPhase = "unknown" THEN
    [state |-> [newState EXCEPT !.lastPhase = resolvePhase(atTop, atBottom)],
     repCompleted |-> FALSE, invalidRep |-> FALSE]
  ELSE
    [state |-> newState, repCompleted |-> FALSE, invalidRep |-> FALSE]

(* ---------------------------------------------------------------------- *)
(* processDeadlift                                                         *)
(* ---------------------------------------------------------------------- *)
\* Variant: barY ?? 0, a missing bar is taken to be at the top of the frame.
barYVal_zero(sample) ==
  IF sample.barY = Undefined THEN Fin(0) ELSE sample.barY

\* barY ?? hipY
barYVal(sample) ==
  IF sample.barY = Undefined THEN sample.hipY ELSE sample.barY

deadliftAtBottom(sample) == Gt(barYVal(sample), sample.hipY)

deadliftAtTop(sample) ==
  Le(barYVal(sample), Sub(sample.hipY, Fin(deadliftLockoutDelta)))

\* Variant: shoulderY <= hipY, the lockout delta forgotten.
torsoUprightEnough_noDelta(sample) == Le(sample.shoulderY, sample.hipY)

\* Variant: shoulderY < hipY - deadliftLockoutDelta.
torsoUprightEnough_strict(sample) ==
  Gt(Sub(sample.hipY, Fin(deadliftLockoutDelta)), sample.shoulderY)

torsoUprightEnough(sample) ==
  Le(sample.shoulderY, Sub(sample.hipY, Fin(deadliftLockoutDelta)))

\* Variant: a rep that passes the lockout test is counted but repCompleted
\* is left false.
processDeadlift_flagOnlyInvalid(state, sample) ==
  LET atBottom == deadliftAtBottom(sample)
      atTop == deadliftAtTop(sample)
      newState == clearReason(state)
  IN
  IF state.lastPhase = "top" /\ atBottom THEN
    [state |-> enterBottom(newState),
     repCompleted |-> FALSE, invalidRep |-> FALSE]
  ELSE IF state.lastPhase = "bottom" /\ atTop THEN
    IF ~torsoUprightEnough(sample) THEN
      [state |-> markInvalid(countRep(newState), DeadliftMsg),
       repCompleted |-> TRUE, invalidRep |-> TRUE]
    ELSE
      [state |-> countRep(newState),
       repCompleted |-> FALSE, invalidRep |-> FALSE]
  ELSE IF state.lastPhase = "unknown" THEN
    [state |-> [newState EXCEPT !.lastPhase = resolvePhase(atTop, atBottom)],
     repCompleted |-> FALSE, invalidRep |-> FALSE]
  ELSE
    [state |-> newState, repCompleted |-> FALSE, invalidRep |-> FALSE]

processDeadlift(state, sample) ==
  LET atBottom == deadliftAtBottom(sample)
      atTop == deadliftAtTop(sample)
      newState == clearReason(state)
  IN
  IF state.lastPhase = "top" /\ atBottom THEN
    [state |-> enterBottom(newState),
     repCompleted |-> FALSE, invalidRep |-> FALSE]
  ELSE IF state.lastPhase = "bottom" /\ atTop THEN
    IF ~torsoUprightEnough(sample) THEN
      [state |-> markInvalid(countRep(newState), DeadliftMsg),
       repCompleted |-> TRUE, invalidRep |-> TRUE]
    ELSE
      [state |-> countRep(newState),
       repCompleted |-> TRUE, invalidRep |-> FALSE]
  ELSE IF state.lastPhase = "unknown" THEN
    [state |-> [newState EXCEPT !.lastPhase = resolvePhase(atTop, atBottom)],
     repCompleted |-> FALSE, invalidRep |-> FALSE]
  ELSE
    [state |-> newState, repCompleted |-> FALSE, invalidRep |-> FALSE]

(* ---------------------------------------------------------------------- *)
(* processPoseSample                                                       *)
(* ---------------------------------------------------------------------- *)
\* Variant: a deadlift sample without barY is rejected with an exception.
processPoseSample_requiresBar(mv, state, sample) ==
  IF mv = "deadlift" /\ sample.barY = Undefined THEN [thrown |-> TRUE]
  ELSE
  CASE mv \in {"air_squat", "wall_ball"} -> processSquatLike(mv, state, sample)
    [] mv = "deadlift" -> processDeadlift(state, sample)
    [] OTHER -> [state |-> state, repCompleted |-> FALSE, invalidRep |-> FALSE]

processPoseSample(mv, state, sample) ==
  CASE mv \in {"air_squat", "wall_ball"} -> processSquatLike(mv, state, sample)
    [] mv = "deadlift" -> processDeadlift(state, sample)
    [] OTHER -> [state |-> state, repCompleted |-> FALSE, invalidRep |-> FALSE]

(* ---------------------------------------------------------------------- *)
(* The App: state                                                          *)
(* ---------------------------------------------------------------------- *)
\* useState<Movement>("air_squat")
InitialMovement == "air_squat"

\* { lastRepAt: null, lastInvalidAt: null }; a timestamp is kept as "set".
NoMetrics == [lastRepAt |-> Null, lastInvalidAt |-> Null]

CameraErrorMsg == "Could not start camera. Check permissions and try again."

\* The placeholder sample of the pose pipeline: 0.5, 0.6, 0.3, no barY.
NeutralSample ==
  [hipY |-> Fin(50), kneeY |-> Fin(60), shoulderY |-> Fin(30),
   barY |-> Undefined]

\* Everything of the App but the movement: counters fresh, camera idle,
\* refs null, no pipeline and no startCamera call yet.
InitRest ==
  /\ repState = createInitialRepState
  /\ call = <<>>
  /\ metrics = NoMetrics
  /\ errorMsg = Null
  /\ cameraStatus = "idle"
  /\ streamRef = <<>>
  /\ videoSrc = <<>>
  /\ poseHandleRef = <<>>
  /\ pipes = <<>>
  /\ starts = <<>>

(* ---------------------------------------------------------------------- *)
(* The session of the classifier                                           *)
(* ---------------------------------------------------------------------- *)
\* The session starts from createInitialRepState() under any movement
\* kind; no call is in progress.
Init ==
  /\ movement \in Movement
  /\ InitRest

\* const result = processPoseSample(movement, prev, sample): the sample is
\* classified against the held state.  `call` holds the sample and the
\* result until the result's state is returned; repState is still the
\* input state of the call.
ProcessPoseSample ==
  /\ call = <<>>
  /\ \E sample \in PoseSample :
       LET result == processPoseSample(movement, repState, sample)
       IN
       /\ result.state.repCount <= MaxReps
       /\ call' = <<[sample |-> sample, result |-> result]>>
  /\ UNCHANGED <<movement, repState, metrics, errorMsg, camVars>>

\* return result.state: the held state is replaced by the returned one,
\* and the setMetrics calls made for the two flags take effect.
ReturnState ==
  /\ call # <<>>
  /\ repState' = call[1].result.state
  /\ metrics' =
       [lastRepAt |->
          IF call[1].result.repCompleted THEN "set" ELSE metrics.lastRepAt,
        lastInvalidAt |->
          IF call[1].result.invalidRep THEN "set" ELSE metrics.lastInvalidAt]
  /\ call' = <<>>
  /\ UNCHANGED <<movement, errorMsg, camVars>>

Next ==
  \/ ProcessPoseSample
  \/ ReturnState

Spec == Init /\ [][Next]_vars

(* ---------------------------------------------------------------------- *)
(* The App: session lifecycle                                              *)
(* ---------------------------------------------------------------------- *)
\* resetSession
resetSession ==
  /\ repState' = createInitialRepState
  /\ metrics' = NoMetrics
  /\ errorMsg' = Null

\* stopCamera: the pipeline behind poseHandleRef is stopped, the tracks of
\* the stream behind streamRef are stopped, both refs and the video's
\* srcObject are nulled, the status becomes idle.
stopCamera ==
  /\ pipes' = IF poseHandleRef # <<>>
              THEN [pipes EXCEPT ![poseHandleRef[1]].stopped = TRUE]
              ELSE pipes
  /\ poseHandleRef' = <<>>
  /\ starts' = IF streamRef # <<>>
               THEN [starts EXCEPT ![streamRef[1]].stream = "stopped"]
               ELSE starts
  /\ streamRef' = <<>>
  /\ videoSrc' = <<>>
  /\ cameraStatus' = "idle"

\* Variant: the effect on [movement] is missing, so a switch keeps the
\* counters.
SetMovement_noReset(m) ==
  /\ call = <<>>
  /\ m # movement
  /\ movement' = m
  /\ UNCHANGED <<repState, metrics, errorMsg, call, camVars>>

\* A movement chip other than the active one is pressed: setMovement(m),
\* and the effect on [movement] runs resetSession.
SetMovement(m) ==
  /\ call = <<>>
  /\ m # movement
  /\ movement' = m
  /\ resetSession
  /\ UNCHANGED <<call, camVars>>

\* "Reset session": stopCamera(); resetSession().
ResetClick ==
  /\ call = <<>>
  /\ stopCamera
  /\ resetSession
  /\ UNCHANGED <<movement, call>>

\* A session of the classifier under a Consumer that also resets it and
\* switches the movement kind.
NextSession ==
  \/ ProcessPoseSample
  \/ ReturnState
  \/ ResetClick
  \/ \E m \in Movement : SetMovement(m)

SpecSession == Init /\ [][NextSession]_vars

(* ---------------------------------------------------------------------- *)
(* The App: camera and pose pipeline                                       *)
(*                                                                         *)
(* starts[i] is the i-th call of startCamera: where it stands (awaiting    *)
(* getUserMedia, awaiting video.play(), done) and the stream it obtained.  *)
(* pipes[p] is the p-th pipeline started: its `stopped` flag and whether   *)
(* an animation-frame callback of its loop is scheduled.  The model covers *)
(* the time the App is mounted, so videoRef.current is never null.         *)
(* ---------------------------------------------------------------------- *)
\* startCamera is memoized with no dependencies (App.tsx line 141), so the
\* button always runs the closure of the first render, and the
\* handlePoseSample it passes as onPose is the first render's, whose
\* movement is the initial one.
onPoseMovement == InitialMovement

\* "Start camera" / "Retry camera" is pressed (the button is disabled while
\* starting or running): startCamera runs up to its first await.
StartCameraClick ==
  /\ call = <<>>
  /\ cameraStatus \notin {"running", "starting"}
  /\ Len(starts) < MaxStarts
  /\ cameraStatus' = "starting"
  /\ errorMsg' = Null
  /\ starts' = Append(starts, [pc |-> "getUserMedia", stream |-> "none"])
  /\ UNCHANGED <<movement, repState, call, metrics,
                 streamRef, videoSrc, poseHandleRef, pipes>>

\* getUserMedia resolves: streamRef and the video's srcObject are set and
\* startCamera awaits video.play().
GetUserMediaResolve(i) ==
  /\ call = <<>>
  /\ starts[i].pc = "getUserMedia"
  /\ streamRef' = <<i>>
  /\ videoSrc' = <<i>>
  /\ starts' = [starts EXCEPT ![i] = [pc |-> "play", stream |-> "live"]]
  /\ UNCHANGED <<movement, repState, call, metrics, errorMsg,
                 cameraStatus, poseHandleRef, pipes>>

\* getUserMedia or video.play() rejects: the catch block.
StartCameraReject(i) ==
  /\ call = <<>>
  /\ starts[i].pc \in {"getUserMedia", "play"}
  /\ errorMsg' = CameraErrorMsg
  /\ cameraStatus' = "error"
  /\ starts' = [starts EXCEPT ![i].pc = "done"]
  /\ UNCHANGED <<movement, repState, call, metrics,
                 streamRef, videoSrc, poseHandleRef, pipes>>

\* video.play() resolves (the browser rejects it instead once srcObject has
\* been replaced or nulled): the status becomes running and
\* startPosePipeline starts a loop, whose handle goes to poseHandleRef.
PlayResolve(i) ==
  /\ call = <<>>
  /\ starts[i].pc = "play"
  /\ videoSrc = <<i>>
  /\ cameraStatus' = "running"
  /\ pipes' = Append(pipes, [stopped |-> FALSE, scheduled |-> TRUE])
  /\ poseHandleRef' = <<Len(pipes) + 1>>
  /\ starts' = [starts EXCEPT ![i].pc = "done"]
  /\ UNCHANGED <<movement, repState, call, metrics, errorMsg,
                 streamRef, videoSrc>>

\* Variant: the loop does not test `stopped`.
AnimationFrame_noStopCheck(p) ==
  /\ call = <<>>
  /\ pipes[p].scheduled
  /\ \E hasSize \in (IF videoSrc = <<>> THEN {FALSE} ELSE {TRUE, FALSE}) :
       IF ~hasSize THEN
         UNCHANGED <<pipes, call>>
       ELSE
         /\ call' = <<[sample |-> NeutralSample,
                       result |-> processPoseSample(onPoseMovement, repState,
                                                    NeutralSample),
                       movement |-> onPoseMovement,
                       pipe |-> p]>>
         /\ UNCHANGED pipes
  /\ UNCHANGED <<movement, repState, metrics, errorMsg,
                 cameraStatus, streamRef, videoSrc, poseHandleRef, starts>>

\* A scheduled animation-frame callback of pipeline p runs `loop`: it
\* returns if stopped; it re-schedules itself while the video has no size;
\* otherwise it calls onPose(neutral), whose state updater classifies the
\* sample against the held state, and re-schedules itself.
AnimationFrame(p) ==
  /\ call = <<>>
  /\ pipes[p].scheduled
  /\ IF pipes[p].stopped THEN
       /\ pipes' = [pipes EXCEPT ![p].scheduled = FALSE]
       /\ UNCHANGED call
     ELSE
       \E hasSize \in (IF videoSrc = <<>> THEN {FALSE} ELSE {TRUE, FALSE}) :
         IF ~hasSize THEN
           UNCHANGED <<pipes, call>>
         ELSE
           /\ call' = <<[sample |-> NeutralSample,
                         result |-> processPoseSample(onPoseMovement,
                                                      repState, NeutralSample),
                         movement |-> onPoseMovement,
                         pipe |-> p]>>
           /\ UNCHANGED pipes
  /\ UNCHANGED <<movement, repState, metrics, errorMsg,
                 cameraStatus, streamRef, videoSrc, poseHandleRef, starts>>

InitApp ==
  /\ movement = InitialMovement
  /\ InitRest

NextApp ==
  \/ \E m \in Movement : SetMovement(m)
  \/ ResetClick
  \/ StartCameraClick
  \/ \E i \in 1..Len(starts) : GetUserMediaResolve(i)
  \/ \E i \in 1..Len(starts) : StartCameraReject(i)
  \/ \E i \in 1..Len(starts) : PlayResolve(i)
  \/ \E p \in 1..Len(pipes) : AnimationFrame(p)
  \/ ReturnState

SpecApp == InitApp /\ [][NextApp]_vars

(* ---------------------------------------------------------------------- *)
(* Properties                                                              *)
(*                                                                         *)
(* While a call is in progress (Busy) repState is the state the call was   *)
(* given, Smp the sample and Out what processPoseSample returned.  The     *)
(* predicates on the sample are restated here from the comparisons they    *)
(* stand for, not taken from the operators of the classifier.              *)
(* ---------------------------------------------------------------------- *)
Busy == call # <<>>
Smp == call[1].sample
Out == call[1].result

SquatLike == {"air_squat", "wall_ball"}

SmpBar == IF Smp.barY = Undefined THEN Smp.hipY ELSE Smp.barY
SmpLockout == Sub(Smp.hipY, Fin(deadliftLockoutDelta))

SmpAtTop ==
  IF movement \in SquatLike
  THEN Le(Smp.hipY, Smp.kneeY)
  ELSE Le(SmpBar, SmpLockout)

SmpAtBottom ==
  IF movement \in SquatLike
  THEN Gt(Sub(Smp.hipY, Smp.kneeY), Fin(squatDepthRatio))
  ELSE Gt(SmpBar, Smp.hipY)

CountsUnchanged ==
  /\ Out.state.repCount = repState.repCount
  /\ Out.state.invalidCount = repState.invalidCount

\* C1: for every movement kind and every sequence of samples from the
\* initial state, every state returned (and every state held) satisfies
\* 0 <= invalidCount <= repCount.
C1_CountsOrdered ==
  /\ 0 <= repState.invalidCount
  /\ repState.invalidCount <= repState.repCount
  /\ Busy => /\ 0 <= Out.state.invalidCount
             /\ Out.state.invalidCount <= Out.state.repCount

\* A call returns a state with one invalid rep among two reps.
C1_Witness ==
  /\ Busy
  /\ Out.repCompleted
  /\ Out.state.repCount = 2
  /\ Out.state.invalidCount = 1

\* C2: a call increases repCount only when the input phase is bottom and
\* the returned phase is top, and then by exactly 1; a call that moves the
\* phase top -> bottom or resolves unknown changes neither counter.
C2_RepOnlyOnBottomToTop ==
  Busy =>
    /\ Out.state.repCount # repState.repCount =>
         /\ repState.lastPhase = "bottom"
         /\ Out.state.lastPhase = "top"
         /\ Out.state.repCount = repState.repCount + 1
    /\ (repState.lastPhase = "top" /\ Out.state.lastPhase = "bottom")
         => CountsUnchanged
    /\ (repState.lastPhase = "unknown" /\ Out.state.lastPhase # "unknown")
         => CountsUnchanged

\* A second rep is counted on bottom -> top, after a descent top -> bottom
\* that left the count at 1.
C2_Witness ==
  /\ Busy
  /\ repState.lastPhase = "bottom"
  /\ repState.repCount = 1
  /\ Out.state.lastPhase = "top"
  /\ Out.state.repCount = 2

\* C3: the returned repCount is the input repCount + 1 exactly when
\* repCompleted is true, and the input repCount otherwise.
C3_RepCountIffCompleted ==
  Busy =>
    Out.state.repCount =
      IF Out.repCompleted THEN repState.repCount + 1 ELSE repState.repCount

\* A deadlift rep that passes the lockout test is completed.
C3_Witness ==
  /\ Busy
  /\ movement = "deadlift"
  /\ Out.repCompleted
  /\ ~Out.invalidRep
  /\ Out.state.repCount = repState.repCount + 1

\* C4: the returned invalidCount is the input invalidCount + 1 exactly when
\* repCompleted and invalidRep are both true, and unchanged otherwise.
C4_InvalidCountIffInvalidRep ==
  Busy =>
    Out.state.invalidCount =
      IF Out.repCompleted /\ Out.invalidRep
      THEN repState.invalidCount + 1
      ELSE repState.invalidCount

\* A second invalid deadlift rep is counted.
C4_Witness ==
  /\ Busy
  /\ movement = "deadlift"
  /\ Out.repCompleted
  /\ Out.invalidRep
  /\ repState.invalidCount = 1
  /\ Out.state.invalidCount = 2

\* C5: the returned lastInvalidReason is present iff the call completed a
\* rep and found it invalid; it is then the squat message for air_squat
\* and wall_ball and the lockout message for deadlift; otherwise it is
\* absent whatever the input state held.
C5_ReasonIffInvalidRep ==
  Busy =>
    /\ Out.state.lastInvalidReason # Null
         <=> (Out.repCompleted /\ Out.invalidRep)
    /\ (Out.repCompleted /\ Out.invalidRep) =>
         Out.state.lastInvalidReason =
           IF movement \in SquatLike THEN SquatMsg ELSE DeadliftMsg

\* A call whose input state carries a reason returns a state without one.
C5_Witness ==
  /\ Busy
  /\ repState.lastInvalidReason # Null
  /\ ~Out.repCompleted
  /\ Out.state.lastInvalidReason = Null

\* C6: for air_squat and wall_ball every completed rep is marked invalid,
\* so invalidCount equals repCount in every state of the session.
C6_SquatRepsAlwaysInvalid ==
  movement \in SquatLike =>
    /\ repState.invalidCount = repState.repCount
    /\ Busy => /\ Out.repCompleted => Out.invalidRep
               /\ Out.state.invalidCount = Out.state.repCount

\* A wall-ball session completes its second rep.
C6_Witness ==
  /\ Busy
  /\ movement = "wall_ball"
  /\ Out.repCompleted
  /\ Out.state.repCount = 2

\* C7: once the held phase is top or bottom, no later call of the session
\* returns it to unknown.
C7_NeverBackToUnknown ==
  [][repState.lastPhase # "unknown" => repState'.lastPhase # "unknown"]_vars

\* A squat-like call from phase top with a sample that is neither at the
\* top nor at the bottom.
C7_Witness ==
  /\ Busy
  /\ movement \in SquatLike
  /\ repState.lastPhase = "top"
  /\ ~SmpAtTop
  /\ ~SmpAtBottom
  /\ Out.state.lastPhase = "top"

\* C8: from phase unknown a call resolves to top if atTop, else to bottom
\* if atBottom, else stays unknown, with no rep event and both counters
\* unchanged; an air_squat sample with hipY equal to kneeY resolves the
\* initial state to top.
C8_UnknownResolution ==
  (Busy /\ repState.lastPhase = "unknown") =>
    /\ Out.state.lastPhase =
         IF SmpAtTop THEN "top"
         ELSE IF SmpAtBottom THEN "bottom" ELSE "unknown"
    /\ ~Out.repCompleted
    /\ ~Out.invalidRep
    /\ CountsUnchanged
    /\ (movement = "air_squat" /\ NumEq(Smp.hipY, Smp.kneeY))
         => Out.state.lastPhase = "top"

\* The first air_squat sample has hipY equal to kneeY.
C8_Witness ==
  /\ Busy
  /\ movement = "air_squat"
  /\ repState = createInitialRepState
  /\ NumEq(Smp.hipY, Smp.kneeY)
  /\ Out.state.lastPhase = "top"

\* C9: a deadlift call from phase bottom whose sample is at the top
\* (barYVal <= hipY - 0.03) completes a rep, which is marked invalid with
\* the lockout message exactly when shoulderY <= hipY - 0.03 is false.
C9_DeadliftLockout ==
  (/\ Busy
   /\ movement = "deadlift"
   /\ repState.lastPhase = "bottom"
   /\ Le(SmpBar, SmpLockout)) =>
    /\ Out.repCompleted
    /\ Out.invalidRep <=> ~Le(Smp.shoulderY, SmpLockout)
    /\ Out.state.lastInvalidReason = DeadliftMsg
         <=> ~Le(Smp.shoulderY, SmpLockout)

\* A deadlift rep is completed with the shoulders short of the lockout
\* line and is marked invalid.
C9_Witness ==
  /\ Busy
  /\ movement = "deadlift"
  /\ repState.lastPhase = "bottom"
  /\ Le(SmpBar, SmpLockout)
  /\ Gt(Smp.shoulderY, SmpLockout)
  /\ Out.invalidRep

\* C10: a deadlift rep completed by a sample whose shoulderY equals
\* hipY - 0.03 exactly is valid: repCompleted, not invalidRep, invalidCount
\* unchanged and no reason.
C10_LockoutBoundaryValid ==
  (/\ Busy
   /\ movement = "deadlift"
   /\ Out.repCompleted
   /\ NumEq(Smp.shoulderY, SmpLockout)) =>
    /\ ~Out.invalidRep
    /\ Out.state.invalidCount = repState.invalidCount
    /\ Out.state.lastInvalidReason = Null

\* A deadlift rep is completed with finite shoulderY on the lockout line.
C10_Witness ==
  /\ Busy
  /\ movement = "deadlift"
  /\ Out.repCompleted
  /\ Smp.shoulderY.k = "fin"
  /\ Smp.hipY.k = "fin"
  /\ NumEq(Smp.shoulderY, SmpLockout)

\* C11: for a squat-like movement, from the initial state a sample at the
\* top, then one at the bottom, then one at the top give: phase top with no
\* event, phase bottom with no event, and on the third call a completed
\* rep with repCount = 1 that is invalid, with invalidCount = 1 and the
\* squat message.  The three calls are chained by the state each returns.
C11_AfterTop == [createInitialRepState EXCEPT !.lastPhase = "top"]
C11_AfterBottom == [createInitialRepState EXCEPT !.lastPhase = "bottom"]

C11_TopBottomTop ==
  (Busy /\ movement \in SquatLike) =>
    /\ (repState = createInitialRepState /\ Le(Smp.hipY, Smp.kneeY)) =>
         Out = [state |-> C11_AfterTop,
                repCompleted |-> FALSE, invalidRep |-> FALSE]
    /\ (/\ repState = C11_AfterTop
        /\ Gt(Sub(Smp.hipY, Smp.kneeY), Fin(squatDepthRatio))) =>
         Out = [state |-> C11_AfterBottom,
                repCompleted |-> FALSE, invalidRep |-> FALSE]
    /\ (repState = C11_AfterBottom /\ Le(Smp.hipY, Smp.kneeY)) =>
         Out = [state |-> [repCount |-> 1, lastPhase |-> "top",
                           invalidCount |-> 1,
                           lastInvalidReason |-> SquatMsg],
                repCompleted |-> TRUE, invalidRep |-> TRUE]

\* The third call of the sequence: the first rep of an air-squat session.
C11_Witness ==
  /\ Busy
  /\ movement = "air_squat"
  /\ repState = C11_AfterBottom
  /\ Le(Smp.hipY, Smp.kneeY)
  /\ Out.state.repCount = 1

\* A call that advances the phase without completing a rep: top -> bottom,
\* or unknown resolved to top or bottom.
AdvancesPhaseOnly ==
  /\ Busy
  /\ ~Out.repCompleted
  /\ \/ repState.lastPhase = "top" /\ Out.state.lastPhase = "bottom"
     \/ repState.lastPhase = "unknown" /\ Out.state.lastPhase # "unknown"

\* C12 as stated: a call that only advances the phase does not clear
\* lastInvalidReason; a reason present in the input state is still present
\* in the returned state.
C12_ReasonKeptOnAdvance ==
  (AdvancesPhaseOnly /\ repState.lastInvalidReason # Null) =>
    Out.state.lastInvalidReason = repState.lastInvalidReason

\* C12 amended: a call that only advances the phase returns a state without
\* lastInvalidReason, whatever the input state held.
C12_ReasonClearedOnAdvance ==
  AdvancesPhaseOnly => Out.state.lastInvalidReason = Null

\* The descent after an invalid rep: the input state carries the reason.
C12_Witness ==
  /\ AdvancesPhaseOnly
  /\ repState.lastInvalidReason # Null
  /\ Out.state.lastPhase = "bottom"

\* The values a call can return.
RepStateType ==
  [repCount : Nat, lastPhase : {"top", "bottom", "unknown"},
   invalidCount : Nat,
   lastInvalidReason : {Null, SquatMsg, DepthMsg, DeadliftMsg}]

ProcessResultType ==
  [state : RepStateType, repCompleted : BOOLEAN, invalidRep : BOOLEAN]

\* C14: processPoseSample is total: for every movement kind, held state and
\* sample (barY present or absent, NaN and infinities included) it returns
\* a result and never throws, so the classification step is enabled in
\* every state in which no call is in progress.
C14_Total ==
  /\ ~Busy =>
       /\ \A sample \in PoseSample :
            processPoseSample(movement, repState, sample) \in ProcessResultType
       /\ ENABLED ProcessPoseSample
  /\ Busy => Out \in ProcessResultType

\* A deadlift call without barY and with hipY not a number returns.
C14_Witness ==
  /\ Busy
  /\ movement = "deadlift"
  /\ Smp.barY = Undefined
  /\ Smp.hipY = NaN
  /\ repState.lastPhase = "bottom"
  /\ Out \in ProcessResultType

\* C16: a call from phase top whose sample is not at the bottom, or from
\* phase bottom whose sample is not at the top, returns lastPhase, repCount
\* and invalidCount unchanged, with repCompleted and invalidRep false.
C16_NoTransitionNoEvent ==
  (/\ Busy
   /\ \/ repState.lastPhase = "top" /\ ~SmpAtBottom
      \/ repState.lastPhase = "bottom" /\ ~SmpAtTop) =>
    /\ Out.state.lastPhase = repState.lastPhase
    /\ CountsUnchanged
    /\ ~Out.repCompleted
    /\ ~Out.invalidRep

\* A squat-like call from phase top with the hip below the knee by no more
\* than the depth threshold.
C16_Witness ==
  /\ Busy
  /\ movement \in SquatLike
  /\ repState.lastPhase = "top"
  /\ Gt(Smp.hipY, Smp.kneeY)
  /\ ~SmpAtBottom
  /\ Out.state.lastPhase = "top"

\* C17 as stated: a deadlift call whose sample has no barY never changes
\* lastPhase, never enters bottom and never completes a rep, from any
\* phase.
C17_NoBarNoChange ==
  (Busy /\ movement = "deadlift" /\ Smp.barY = Undefined) =>
    /\ Out.state.lastPhase = repState.lastPhase
    /\ ~Out.repCompleted
    /\ CountsUnchanged

\* C17 amended: a deadlift call whose sample has no barY never enters
\* bottom; it changes nothing but lastInvalidReason unless hipY - 0.03 <
\* hipY fails to hold of a hipY that is a number, i.e. unless hipY is
\* +Infinity or -Infinity (in doubles also a finite hipY so large that
\* hipY - 0.03 === hipY); for such a hipY the sample is at the top.
C17_NoBarNoChangeUnlessAbsorbed ==
  (Busy /\ movement = "deadlift" /\ Smp.barY = Undefined) =>
    /\ Out.state.lastPhase = "bottom" => repState.lastPhase = "bottom"
    /\ (Smp.hipY = NaN \/ Gt(Smp.hipY, SmpLockout)) =>
         /\ Out.state.lastPhase = repState.lastPhase
         /\ ~Out.repCompleted
         /\ ~Out.invalidRep
         /\ CountsUnchanged
    /\ (Smp.hipY # NaN /\ ~Gt(Smp.hipY, SmpLockout)) =>
         Out.state.lastPhase = "top"

\* A deadlift call from phase bottom with no barY and a finite hipY.
C17_Witness ==
  /\ Busy
  /\ movement = "deadlift"
  /\ Smp.barY = Undefined
  /\ Smp.hipY.k = "fin"
  /\ repState.lastPhase = "bottom"
  /\ Out.state.lastPhase = "bottom"

\* C19: two consecutive calls never both complete a rep, and between two
\* rep-completing calls there is a call that moves the phase top -> bottom
\* on a sample at the bottom.  A completing call starts in phase bottom
\* and leaves the held phase at top; from top the phase only ever moves to
\* bottom, by a call that completes nothing and whose sample is at the
\* bottom.
C19_DescentBetweenReps ==
  /\ [](Busy =>
         /\ Out.repCompleted =>
              /\ repState.lastPhase = "bottom"
              /\ Out.state.lastPhase = "top"
         /\ (repState.lastPhase = "top" /\ Out.state.lastPhase # "top") =>
              /\ Out.state.lastPhase = "bottom"
              /\ SmpAtBottom
              /\ ~Out.repCompleted)
  /\ [][(Busy /\ Out.repCompleted) => repState'.lastPhase = "top"]_vars

\* The call after a completed rep: from phase top, one rep counted, the
\* sample again at the top, and no rep is completed.
C19_Witness ==
  /\ Busy
  /\ repState.lastPhase = "top"
  /\ repState.repCount = 1
  /\ SmpAtTop
  /\ ~Out.repCompleted

\* C13: whenever the session is reset or the movement kind is switched, the
\* held RepState becomes the fresh initial state (0, unknown, 0, no
\* reason), whatever it was before.
C13_ResetGivesInitialState ==
  [][(ResetClick \/ movement' # movement)
       => repState' = createInitialRepState]_vars

\* A session that holds two reps, one of them invalid, and the reason of
\* the last one, with no call in progress: the state that the reset and
\* the switch discard.
C13_Witness ==
  /\ ~Busy
  /\ repState.repCount = 2
  /\ repState.invalidCount = 1
  /\ repState.lastInvalidReason # Null
  /\ ENABLED ResetClick
  /\ ENABLED SetMovement("air_squat")

\* The state every later neutral sample leaves in place, per movement.
C15_AfterNeutral(mv) ==
  processPoseSample(mv, createInitialRepState, NeutralSample)

\* C15: with the placeholder pipeline, which only delivers the neutral
\* sample, no rep is ever counted: in the App both counters stay 0 and no
\* call reports a rep; and for every movement kind the first neutral
\* sample counts nothing and returns a state that a further neutral sample
\* returns unchanged, so no number of them counts a rep.
C15_NeutralNeverCounts ==
  /\ repState.repCount = 0
  /\ repState.invalidCount = 0
  /\ Busy => /\ Smp = NeutralSample
             /\ ~Out.repCompleted
             /\ ~Out.invalidRep
             /\ Out.state.repCount = 0
             /\ Out.state.invalidCount = 0
  /\ \A mv \in Movement :
       /\ C15_AfterNeutral(mv).state.repCount = 0
       /\ C15_AfterNeutral(mv).state.invalidCount = 0
       /\ ~C15_AfterNeutral(mv).repCompleted
       /\ processPoseSample(mv, C15_AfterNeutral(mv).state, NeutralSample)
            = C15_AfterNeutral(mv)

\* A neutral sample arrives after an earlier one has resolved the phase.
C15_Witness ==
  /\ Busy
  /\ Smp = NeutralSample
  /\ repState.lastPhase = "top"
  /\ Out.state = repState

\* C18: once stop() has been called on a pipeline's handle, that pipeline
\* never invokes onPose again, not even from an animation-frame callback
\* scheduled before stop(); and a stopped pipeline stays stopped.
C18_NoPoseAfterStop ==
  [][/\ (~Busy /\ call' # <<>>) => ~pipes[call'[1].pipe].stopped
     /\ \A p \in 1..Len(pipes) : pipes[p].stopped => pipes'[p].stopped]_vars

\* The callback that was scheduled when stop() was called has run and has
\* returned without a call of onPose.
C18_Witness ==
  /\ ~Busy
  /\ \E p \in 1..Len(pipes) : pipes[p].stopped /\ ~pipes[p].scheduled

\* C20: every pose sample delivered by the running pipeline is classified
\* under the movement kind currently selected in the App, also after the
\* movement was switched.
C20_ClassifiedUnderSelected ==
  Busy => call[1].movement = movement

\* The camera is off: status idle, no stream held, no pipeline running.
CameraOff ==
  /\ cameraStatus = "idle"
  /\ streamRef = <<>>
  /\ poseHandleRef = <<>>
  /\ \A p \in 1..Len(pipes) : pipes[p].stopped

\* C21: "Reset session" leaves the camera off (status idle, no stream
\* held, no pipeline running), and the camera stays off until "Start
\* camera" is pressed again, also when an earlier startCamera call is
\* still awaiting getUserMedia or video.play().
C21_OffAfterResetUntilStart ==
  [][/\ ResetClick => CameraOff'
     /\ (CameraOff /\ ~StartCameraClick) => CameraOff']_vars

====
